---- MODULE Spec2Model ----
(***************************************************************************)
(* The Gemini admission layer of SoulSight-AI (src/app.py): the daily      *)
(* quota tracker, the cooldown gate, the response cache and the model      *)
(* fallback loop of process_image_with_gemini, run by concurrent request   *)
(* threads against process-wide state.                                     *)
(*                                                                         *)
(* Time is the wall clock in seconds (now, read by datetime.now()) and the *)
(* calendar date (today, read by date.today()); a clock step may cross     *)
(* midnight.  Python's None is the string "None" where the code formats it *)
(* into a cache key, and the falsy user id 0 where the code tests          *)
(* `if user_id:`.  A dict is a function whose DOMAIN is its key set; the   *)
(* insertion-ordered dict gemini_request_cache is a sequence of            *)
(* [key, value] entries in insertion order.                                *)
(***************************************************************************)
EXTENDS Integers, Sequences, FiniteSets, TLC

(***************************************************************************)
(* Program constants                                                       *)
(***************************************************************************)
FREE_TIER_DAILY_LIMIT == 15

FREE_TIER_COOLDOWN == 60

\* len(gemini_request_cache) > 1000
CACHE_LIMIT == 1000

\* list(gemini_request_cache.keys())[:100]
EVICT_BATCH == 100

\* datetime.min in seconds on the model's clock: further in the past than any
\* interval the code compares against
datetime_min == -1000000000

None == "None"

GEMINI_MODEL == "gemini-2.0-flash"

\* cleanup_gemini_cache: (now - last_call).total_seconds() > 3600
CLEANUP_MAX_AGE == 3600

(***************************************************************************)
(* Bounds of the model                                                     *)
(***************************************************************************)
MaxTime == 60

MaxDay == 1

Threads == {1, 2}

\* the amounts by which the clock is seen to advance between two steps
TickSteps == {30, 60}

Users == {1, 2}

\* user_id=None (the default) and every other falsy id behave alike
NoUser == 0

Texts == {"text A", "text B"}

\* how many deletions of cache_result's loop are seen as one step
EvictChunk == 50

(***************************************************************************)
(* Requests: the arguments of process_image_with_gemini                    *)
(***************************************************************************)
Args(image, mode) ==
    [image_path |-> image, mode |-> mode, custom_prompt |-> None,
     tone |-> "neutral", length |-> "medium", language |-> "en",
     question |-> ""]

NoArgs == Args(None, None)

\* calculate_image_hash: the digest of the file's bytes, None when reading
\* the file raised.  "gone.png" is a file for which it raised; Image.open in
\* the model loop is a later, separate read of the file, and its failure is
\* one of the answers Raised({}) of the loop body.
calculate_image_hash(image_path) ==
    CASE image_path = "a.png" -> "0cc175b9"
      [] OTHER -> None

\* f"{image_hash}:{mode}:{custom_prompt}:{tone}:{length}:{language}:{question}"
cache_key(image_hash, a) ==
    image_hash \o ":" \o a.mode \o ":" \o a.custom_prompt \o ":" \o a.tone
        \o ":" \o a.length \o ":" \o a.language \o ":" \o a.question

(***************************************************************************)
(* State                                                                   *)
(***************************************************************************)
VARIABLES
    now,                      \* datetime.now()
    today,                    \* date.today()
    gemini_last_call_time,
    gemini_user_cooldowns,
    gemini_daily_counts,
    gemini_daily_reset_date,
    gemini_request_cache,
    th,                       \* each request thread's frame
    fill,                     \* keys stored so far by FillInsert
    day_calls,                \* history: user -> successful provider calls
                              \* admitted and completed on date `today`
    straddled,                \* history: users with a successful call that
                              \* was admitted before `today`, counted today
    stored_since,             \* history: thread -> a result was stored under
                              \* its request's key since its cache lookup
    last_recorded,            \* history: the user_id of the most recent
                              \* update_gemini_call_time
    swept                     \* history: the users whose cooldown entries
                              \* the most recent cleanup deleted

clock == <<now, today>>
cooldownVars == <<gemini_last_call_time, gemini_user_cooldowns>>
quotaVars == <<gemini_daily_counts, gemini_daily_reset_date>>
history == <<day_calls, straddled, stored_since, last_recorded, swept>>
vars == <<now, today, gemini_last_call_time, gemini_user_cooldowns,
          gemini_daily_counts, gemini_daily_reset_date,
          gemini_request_cache, th, fill, day_calls, straddled,
          stored_since, last_recorded, swept>>

(***************************************************************************)
(* dict helpers                                                            *)
(***************************************************************************)
EmptyDict == << >>

DictGet(d, k, default) == IF k \in DOMAIN d THEN d[k] ELSE default

DictSet(d, k, v) == [x \in DOMAIN d \cup {k} |-> IF x = k THEN v ELSE d[x]]

(***************************************************************************)
(* Quota tracker                                                           *)
(***************************************************************************)
\* check_daily_quota without `global gemini_daily_reset_date`: the counts are
\* cleared and the stored date stays
check_daily_quota_stale_date(user_id, counts, reset_date, date_today) ==
    LET new_day == date_today # reset_date
        counts1 == IF new_day THEN EmptyDict ELSE counts
        user_count == DictGet(counts1, user_id, 0)
    IN  [counts |-> counts1,
         reset_date |-> reset_date,
         has_quota |-> ~(user_count >= FREE_TIER_DAILY_LIMIT),
         current_count |-> user_count,
         daily_limit |-> FREE_TIER_DAILY_LIMIT]

\* check_daily_quota comparing with > where the code has >=
check_daily_quota_gt(user_id, counts, reset_date, date_today) ==
    LET new_day == date_today # reset_date
        counts1 == IF new_day THEN EmptyDict ELSE counts
        user_count == DictGet(counts1, user_id, 0)
    IN  [counts |-> counts1,
         reset_date |-> IF new_day THEN date_today ELSE reset_date,
         has_quota |-> ~(user_count > FREE_TIER_DAILY_LIMIT),
         current_count |-> user_count,
         daily_limit |-> FREE_TIER_DAILY_LIMIT]

\* check_daily_quota that admits every request
check_daily_quota_unlimited(user_id, counts, reset_date, date_today) ==
    LET new_day == date_today # reset_date
        counts1 == IF new_day THEN EmptyDict ELSE counts
        user_count == DictGet(counts1, user_id, 0)
    IN  [counts |-> counts1,
         reset_date |-> IF new_day THEN date_today ELSE reset_date,
         has_quota |-> TRUE,
         current_count |-> user_count,
         daily_limit |-> FREE_TIER_DAILY_LIMIT]

\* Returns the tracker after the lazy day reset together with
\* (has_quota, current_count, daily_limit).
check_daily_quota(user_id, counts, reset_date, date_today) ==
    LET new_day == date_today # reset_date
        counts1 == IF new_day THEN EmptyDict ELSE counts
        user_count == DictGet(counts1, user_id, 0)
    IN  [counts |-> counts1,
         reset_date |-> IF new_day THEN date_today ELSE reset_date,
         has_quota |-> ~(user_count >= FREE_TIER_DAILY_LIMIT),
         current_count |-> user_count,
         daily_limit |-> FREE_TIER_DAILY_LIMIT]

increment_daily_count(user_id, counts) ==
    DictSet(counts, user_id, DictGet(counts, user_id, 0) + 1)

(***************************************************************************)
(* Cooldown gate                                                           *)
(***************************************************************************)
GlobalMessage == "Global cooldown active. Please wait"
UserMessage == "Please wait before another analysis."

\* check_gemini_cooldown that forgets the per-user check
check_gemini_cooldown_global_only(user_id, t_now, last_call_time, user_cooldowns) ==
    LET time_since_last_call == t_now - last_call_time
    IN  IF time_since_last_call < FREE_TIER_COOLDOWN
        THEN [can_call |-> FALSE,
              wait_time |-> FREE_TIER_COOLDOWN - time_since_last_call,
              message |-> GlobalMessage]
        ELSE [can_call |-> TRUE, wait_time |-> 0, message |-> "OK"]

\* check_gemini_cooldown with the two checks in the other order
check_gemini_cooldown_user_first(user_id, t_now, last_call_time, user_cooldowns) ==
    LET time_since_last_call == t_now - last_call_time
        last_user_call == DictGet(user_cooldowns, user_id, datetime_min)
        time_since_user_call == t_now - last_user_call
    IN  IF user_id # NoUser /\ time_since_user_call < FREE_TIER_COOLDOWN
        THEN [can_call |-> FALSE,
              wait_time |-> FREE_TIER_COOLDOWN - time_since_user_call,
              message |-> UserMessage]
        ELSE IF time_since_last_call < FREE_TIER_COOLDOWN
        THEN [can_call |-> FALSE,
              wait_time |-> FREE_TIER_COOLDOWN - time_since_last_call,
              message |-> GlobalMessage]
        ELSE [can_call |-> TRUE, wait_time |-> 0, message |-> "OK"]

\* a gate that admits every call
check_gemini_cooldown_open(user_id, t_now, last_call_time, user_cooldowns) ==
    [can_call |-> TRUE, wait_time |-> 0, message |-> "OK"]

\* (can_call, wait_time, message) at clock reading t_now
check_gemini_cooldown(user_id, t_now, last_call_time, user_cooldowns) ==
    LET time_since_last_call == t_now - last_call_time
        last_user_call == DictGet(user_cooldowns, user_id, datetime_min)
        time_since_user_call == t_now - last_user_call
    IN  IF time_since_last_call < FREE_TIER_COOLDOWN
        THEN [can_call |-> FALSE,
              wait_time |-> FREE_TIER_COOLDOWN - time_since_last_call,
              message |-> GlobalMessage]
        ELSE IF user_id # NoUser /\ time_since_user_call < FREE_TIER_COOLDOWN
        THEN [can_call |-> FALSE,
              wait_time |-> FREE_TIER_COOLDOWN - time_since_user_call,
              message |-> UserMessage]
        ELSE [can_call |-> TRUE, wait_time |-> 0, message |-> "OK"]

\* an update that stamps the user and leaves the global time at "never"
update_gemini_call_time_user_only(user_id, t1, t2, user_cooldowns) ==
    [last_call_time |-> datetime_min,
     user_cooldowns |-> IF user_id # NoUser
                        THEN DictSet(user_cooldowns, user_id, t2)
                        ELSE user_cooldowns]

\* t1 and t2 are the two readings of datetime.now(), t1 <= t2
update_gemini_call_time(user_id, t1, t2, user_cooldowns) ==
    [last_call_time |-> t1,
     user_cooldowns |-> IF user_id # NoUser
                        THEN DictSet(user_cooldowns, user_id, t2)
                        ELSE user_cooldowns]

(***************************************************************************)
(* Response cache                                                          *)
(***************************************************************************)
CacheKeys(cache) == [i \in 1..Len(cache) |-> cache[i].key]

CacheHas(cache, key) == \E i \in 1..Len(cache) : cache[i].key = key

\* dict.get(cache_key): the stored result, or None
NoEntry == [text |-> None]

\* a lookup that never finds the key
get_cached_result_miss(cache, key) == NoEntry

\* a lookup that finds a result under every key
get_cached_result_any(cache, key) == [text |-> "stale"]

get_cached_result(cache, key) ==
    IF CacheHas(cache, key)
    THEN (CHOOSE e \in {cache[i] : i \in 1..Len(cache)} : e.key = key).value
    ELSE NoEntry

\* gemini_request_cache[cache_key] = result: a present key keeps its place
CacheStore(cache, key, value) ==
    IF CacheHas(cache, key)
    THEN [i \in 1..Len(cache) |->
            IF cache[i].key = key THEN [key |-> key, value |-> value]
            ELSE cache[i]]
    ELSE Append(cache, [key |-> key, value |-> value])

\* del gemini_request_cache[key], for a key that is present
CacheDel(cache, key) == SelectSeq(cache, LAMBDA e : e.key # key)

\* a size test that never asks for an eviction
NeedsEviction_never(cache) == FALSE

NeedsEviction(cache) == Len(cache) > CACHE_LIMIT

\* the newest EVICT_BATCH keys instead of the oldest
keys_to_remove_newest(cache) ==
    SubSeq(CacheKeys(cache),
           IF Len(cache) < EVICT_BATCH THEN 1
           ELSE Len(cache) - EVICT_BATCH + 1,
           Len(cache))

keys_to_remove(cache) ==
    SubSeq(CacheKeys(cache), 1,
           IF Len(cache) < EVICT_BATCH THEN Len(cache) ELSE EVICT_BATCH)

\* for key in keys_to_remove: del gemini_request_cache[key], every key
\* being present: what is left is the entries with none of these keys
DelAll(cache, keys) ==
    LET removed == {keys[i] : i \in 1..Len(keys)}
    IN  SelectSeq(cache, LAMBDA e : e.key \notin removed)

\* cache_result run without interference from another thread
cache_result(cache, key, value) ==
    LET stored == CacheStore(cache, key, value)
    IN  IF NeedsEviction(stored)
        THEN DelAll(stored, keys_to_remove(stored))
        ELSE stored

(***************************************************************************)
(* Provider adapter                                                        *)
(***************************************************************************)
\* list(dict.fromkeys(models)): first occurrences, in order
RECURSIVE Dedup(_)
Dedup(models) ==
    IF models = << >> THEN << >>
    ELSE LET init == Dedup(SubSeq(models, 1, Len(models) - 1))
             last == models[Len(models)]
         IN  IF \E i \in 1..Len(init) : init[i] = last THEN init
             ELSE Append(init, last)

\* None of the configured names starts with 'models/', so model_name_clean
\* is the name itself.
models_to_try ==
    Dedup(<<GEMINI_MODEL>> \o
          <<"gemini-2.0-flash", "gemini-flash-latest", "gemini-1.5-flash-latest">>)

\* What model.generate_content does: it returns a response with a text, or
\* raises.  str(api_error) is modelled by the set of the substrings the code
\* looks for that it contains (compared in lower case where the code does).
Markers == {"429", "quota", "404", "not found", "503", "unavailable"}

Returned(text) == [raised |-> FALSE, text |-> text, error_str |-> {}]

Raised(error_str) == [raised |-> TRUE, text |-> "", error_str |-> error_str]

\* response.text of an answer without content: empty, or white space only
EmptyText == ""

BlankText == " "

AllResponses ==
    {Returned(s) : s \in Texts \cup {EmptyText, BlankText}}
    \cup {Raised({m}) : m \in Markers} \cup {Raised({})}

IsQuotaError(error_str) == "429" \in error_str \/ "quota" \in error_str

IsNotFoundError(error_str) == "404" \in error_str \/ "not found" \in error_str

IsUnavailableError(error_str) ==
    "503" \in error_str \/ "unavailable" \in error_str

\* last_error: None, or an exception with its str()
NoError == [is_none |-> TRUE, error_str |-> {}]

Error(error_str) == [is_none |-> FALSE, error_str |-> error_str]

\* a loop body that treats a rate/quota error like any other error
Classify_quota_continues(resp, last_error) ==
    IF ~resp.raised /\ resp.text # ""
    THEN [next |-> "success", last_error |-> last_error]
    ELSE LET error_str == IF resp.raised THEN resp.error_str ELSE {}
         IN  IF IsQuotaError(error_str)
             THEN [next |-> "continue", last_error |-> Error(error_str)]
             ELSE IF IsNotFoundError(error_str)
             THEN [next |-> "continue", last_error |-> last_error]
             ELSE IF IsUnavailableError(error_str)
             THEN [next |-> "continue", last_error |-> last_error]
             ELSE [next |-> "continue", last_error |-> Error(error_str)]

\* What one pass of the loop body does with the provider's answer:
\* "success", "break", or "continue", and the new last_error.
Classify(resp, last_error) ==
    IF ~resp.raised /\ resp.text # ""
    THEN [next |-> "success", last_error |-> last_error]
    ELSE LET error_str == IF resp.raised THEN resp.error_str ELSE {}
         IN  IF IsQuotaError(error_str)
             THEN [next |-> "break", last_error |-> Error(error_str)]
             ELSE IF IsNotFoundError(error_str)
             THEN [next |-> "continue", last_error |-> last_error]
             ELSE IF IsUnavailableError(error_str)
             THEN [next |-> "continue", last_error |-> last_error]
             ELSE [next |-> "continue", last_error |-> Error(error_str)]

(***************************************************************************)
(* Outcomes: the dict process_image_with_gemini returns, with the keys     *)
(* that dict has (confidence and processing_time are left out)             *)
(***************************************************************************)
NoResult == [text |-> None]

\* a rejection that looks like a short cooldown
QuotaRejected_as_cooldown ==
    [text |-> "Daily quota exceeded.", cached |-> FALSE, cooldown |-> 300,
     quota_exceeded |-> FALSE]

QuotaRejected ==
    [text |-> "Daily quota exceeded.", cached |-> FALSE, cooldown |-> 3600,
     quota_exceeded |-> TRUE]

\* a rejection with the full cooldown as its hint
CooldownRejected_full(message, wait_time) ==
    [text |-> message, cached |-> FALSE, cooldown |-> FREE_TIER_COOLDOWN]

CooldownRejected(message, wait_time) ==
    [text |-> message, cached |-> FALSE, cooldown |-> wait_time]

CachedResult(cached_result) ==
    [text |-> cached_result.text, cached |-> TRUE, cooldown |-> 0,
     quota_exceeded |-> FALSE]

result_data(text, model_name_clean) ==
    [text |-> text, cached |-> FALSE, cooldown |-> 0,
     model_used |-> model_name_clean, quota_exceeded |-> FALSE]

\* the return after the loop
FailureResult(last_error) ==
    IF ~last_error.is_none
    THEN IF IsQuotaError(last_error.error_str)
         THEN [text |-> "Free tier quota reached for today.",
               cached |-> FALSE, cooldown |-> 86400, quota_exceeded |-> TRUE]
         ELSE IF "404" \in last_error.error_str
         THEN [text |-> "Model configuration error.", cached |-> FALSE,
               cooldown |-> 0, quota_exceeded |-> FALSE]
         ELSE [text |-> "Error", cached |-> FALSE, cooldown |-> 300,
               quota_exceeded |-> FALSE]
    ELSE [text |-> "All models failed.", cached |-> FALSE, cooldown |-> 300,
          quota_exceeded |-> FALSE]

(***************************************************************************)
(* Request threads: process_image_with_gemini, one step per access to the  *)
(* shared state.  A step under a lock is atomic; cache_result takes no     *)
(* lock, so each of its statements is a step of its own.                   *)
(***************************************************************************)
IdleFrame ==
    [pc |-> "idle", user_id |-> NoUser, args |-> NoArgs,
     has_quota |-> TRUE, current_count |-> 0,
     can_call |-> TRUE, wait_time |-> 0, message |-> None,
     image_hash |-> None, idx |-> 0, last_error |-> NoError,
     response |-> None, keys_to_remove |-> << >>,
     result |-> NoResult,
     \* a thread running one of the locked operations on its own:
     op |-> None,              \* the operation
     todo |-> << >>,           \* the locks it has still to acquire
     held |-> << >>,           \* the locks it holds, in order of acquisition
     \* history of the request, not read by the code:
     admit_day |-> 0,          \* the date of its quota check
     checked_at |-> 0,         \* the time of its cooldown check
     recorded_at |-> 0,        \* the time it stored for its user
     calls |-> << >>,          \* each generate_content call: model, answer
     succeeded_at |-> 0,       \* index of the first model that returned text
     recorded |-> 0,           \* its calls of update_gemini_call_time
     touched |-> {}]           \* the shared state it has written

Init ==
    /\ now = 0
    /\ today = 0
    /\ gemini_last_call_time = datetime_min
    /\ gemini_user_cooldowns = EmptyDict
    /\ gemini_daily_counts = EmptyDict
    /\ gemini_daily_reset_date = today
    /\ gemini_request_cache = << >>
    /\ th = [t \in Threads |-> IdleFrame]
    /\ fill = 0
    /\ day_calls = EmptyDict
    /\ straddled = {}
    /\ stored_since = [t \in Threads |-> FALSE]
    /\ last_recorded = NoUser
    /\ swept = {}

Frame(t, f) == [th EXCEPT ![t] = f]

\* a loop that tries the same candidate again
Continue_same_model(f, last_error) ==
    [f EXCEPT !.pc = "call", !.last_error = last_error, !.response = None]

\* the continue statement of the model loop
Continue(f, last_error) ==
    IF f.idx < Len(models_to_try)
    THEN [f EXCEPT !.pc = "call", !.idx = f.idx + 1,
                   !.last_error = last_error, !.response = None,
                   !.keys_to_remove = << >>]
    ELSE [f EXCEPT !.pc = "done", !.last_error = last_error,
                   !.response = None, !.keys_to_remove = << >>,
                   !.result = FailureResult(last_error)]

\* the break statement of the model loop
Break(f, last_error) ==
    [f EXCEPT !.pc = "done", !.last_error = last_error,
              !.result = FailureResult(last_error)]

\* a request arrives
Start(t, user_ids, argset) ==
    /\ th[t].pc = "idle"
    /\ \E u \in user_ids, a \in argset :
          th' = Frame(t, [IdleFrame EXCEPT
                            !.pc = IF u # NoUser THEN "quota" ELSE "cooldown",
                            !.user_id = u, !.args = a, !.admit_day = today])
    /\ UNCHANGED <<clock, cooldownVars, quotaVars, gemini_request_cache,
                   fill, history>>

\* has_quota, current_count, daily_limit = check_daily_quota(user_id)
CheckQuota(t) ==
    /\ th[t].pc = "quota"
    /\ LET f == th[t]
           r == check_daily_quota(f.user_id, gemini_daily_counts,
                                  gemini_daily_reset_date, today)
       IN  /\ gemini_daily_counts' = r.counts
           /\ gemini_daily_reset_date' = r.reset_date
           /\ th' = Frame(t, [f EXCEPT
                    !.has_quota = r.has_quota,
                    !.current_count = r.current_count,
                    !.admit_day = today,
                    !.touched = IF r.counts # gemini_daily_counts
                                   \/ r.reset_date # gemini_daily_reset_date
                                THEN f.touched \cup {"quota"}
                                ELSE f.touched,
                    !.pc = IF r.has_quota THEN "cooldown" ELSE "done",
                    !.result = IF r.has_quota THEN NoResult
                               ELSE QuotaRejected])
    /\ UNCHANGED <<clock, cooldownVars, gemini_request_cache, fill, history>>

\* can_call, wait_time, message = check_gemini_cooldown(user_id)
CheckCooldown(t) ==
    /\ th[t].pc = "cooldown"
    /\ LET f == th[t]
           r == check_gemini_cooldown(f.user_id, now, gemini_last_call_time,
                                      gemini_user_cooldowns)
       IN  th' = Frame(t, [f EXCEPT
                    !.current_count = 0,
                    !.can_call = r.can_call, !.wait_time = r.wait_time,
                    !.checked_at = now,
                    !.message = r.message,
                    !.pc = IF r.can_call THEN "cache" ELSE "done",
                    !.result = IF r.can_call THEN NoResult
                               ELSE CooldownRejected(r.message, r.wait_time)])
    /\ UNCHANGED <<clock, cooldownVars, quotaVars, gemini_request_cache,
                   fill, history>>

\* image_hash = calculate_image_hash(image_path), then the cache lookup
CacheLookup(t) ==
    /\ th[t].pc = "cache"
    /\ LET f == th[t]
           image_hash == calculate_image_hash(f.args.image_path)
           cached_result ==
               IF image_hash # None
               THEN get_cached_result(gemini_request_cache,
                                      cache_key(image_hash, f.args))
               ELSE NoEntry
       IN  th' = Frame(t,
                IF cached_result # NoEntry
                THEN [f EXCEPT !.image_hash = image_hash, !.pc = "done",
                               !.result = CachedResult(cached_result)]
                ELSE [f EXCEPT !.image_hash = image_hash, !.pc = "call",
                               !.idx = 1, !.last_error = NoError,
                               !.wait_time = 0, !.message = None])
    /\ stored_since' = [stored_since EXCEPT ![t] = FALSE]
    /\ UNCHANGED <<clock, cooldownVars, quotaVars, gemini_request_cache,
                   fill, day_calls, straddled, last_recorded, swept>>

\* response = model.generate_content([final_prompt, img]) for
\* models_to_try[idx], and the handling of what it returns or raises
CallModel(t, responses) ==
    /\ th[t].pc = "call"
    /\ \E resp \in responses :
        LET c == Classify(resp, th[t].last_error)
            f == [th[t] EXCEPT
                     !.calls = Append(th[t].calls,
                                 [model |-> models_to_try[th[t].idx],
                                  response |-> resp]),
                     !.succeeded_at =
                         IF c.next = "success" /\ th[t].succeeded_at = 0
                         THEN th[t].idx ELSE th[t].succeeded_at]
        IN  th' = Frame(t,
                CASE c.next = "success" ->
                       [f EXCEPT !.response = resp.text,
                                 !.last_error = NoError,
                                 !.pc = IF f.image_hash # None THEN "put"
                                        ELSE "record"]
                  [] c.next = "break" -> Break(f, c.last_error)
                  [] OTHER -> Continue(f, c.last_error))
    /\ UNCHANGED <<clock, cooldownVars, quotaVars, gemini_request_cache,
                   fill, history>>

\* cache_result: gemini_request_cache[cache_key] = result
CachePut(t) ==
    /\ th[t].pc = "put"
    /\ LET f == th[t]
       IN  /\ gemini_request_cache' =
                 CacheStore(gemini_request_cache,
                            cache_key(f.image_hash, f.args),
                            result_data(f.response, models_to_try[f.idx]))
           /\ th' = Frame(t, [f EXCEPT !.pc = "put_len",
                                        !.touched = f.touched \cup {"cache"}])
           /\ stored_since' =
                 [s \in Threads |->
                    IF /\ th[s].pc \notin {"idle", "quota", "cooldown", "cache"}
                       /\ th[s].image_hash # None
                       /\ cache_key(th[s].image_hash, th[s].args)
                             = cache_key(f.image_hash, f.args)
                    THEN TRUE ELSE stored_since[s]]
    /\ UNCHANGED <<clock, cooldownVars, quotaVars, fill, day_calls,
                   straddled, last_recorded, swept>>

\* cache_result: if len(gemini_request_cache) > 1000
CacheLen(t) ==
    /\ th[t].pc = "put_len"
    /\ th' = Frame(t, [th[t] EXCEPT
                 !.pc = IF NeedsEviction(gemini_request_cache)
                        THEN "evict_keys" ELSE "record"])
    /\ UNCHANGED <<clock, cooldownVars, quotaVars, gemini_request_cache,
                   fill, history>>

\* cache_result: keys_to_remove = list(gemini_request_cache.keys())[:100]
EvictKeys(t) ==
    /\ th[t].pc = "evict_keys"
    /\ th' = Frame(t, [th[t] EXCEPT
                 !.pc = "evict_del",
                 !.keys_to_remove = keys_to_remove(gemini_request_cache)])
    /\ UNCHANGED <<clock, cooldownVars, quotaVars, gemini_request_cache,
                   fill, history>>

\* cache_result: the next passes of `for key in keys_to_remove: del
\* cache[key]`, up to EvictChunk of them without another thread running in
\* between.  del raises KeyError when another thread has removed the key;
\* the keys before it are deleted, and the `except Exception as
\* model_error` of the model loop catches the error.
EvictDel(t) ==
    /\ th[t].pc = "evict_del"
    /\ LET f == th[t]
           n == IF Len(f.keys_to_remove) < EvictChunk
                THEN Len(f.keys_to_remove) ELSE EvictChunk
           missing == {i \in 1..n :
                         ~CacheHas(gemini_request_cache, f.keys_to_remove[i])}
           deleted == IF missing = {} THEN n
                      ELSE (CHOOSE i \in missing :
                              \A j \in missing : i <= j) - 1
       IN  /\ gemini_request_cache' =
                 DelAll(gemini_request_cache,
                        SubSeq(f.keys_to_remove, 1, deleted))
           /\ th' = Frame(t,
                 IF missing # {} THEN Continue(f, Error({}))
                 ELSE IF n = Len(f.keys_to_remove)
                 THEN [f EXCEPT !.pc = "record", !.keys_to_remove = << >>]
                 ELSE [f EXCEPT !.keys_to_remove =
                          SubSeq(f.keys_to_remove, n + 1,
                                 Len(f.keys_to_remove))])
    /\ UNCHANGED <<clock, cooldownVars, quotaVars, fill, history>>

\* update_gemini_call_time(user_id): the clock is read twice, and may have
\* advanced in between
Record(t) ==
    /\ th[t].pc = "record"
    /\ \E d \in {0} \cup TickSteps :
        /\ now + d <= MaxTime
        /\ LET f == th[t]
               r == update_gemini_call_time(f.user_id, now, now + d,
                                            gemini_user_cooldowns)
               g == [f EXCEPT !.recorded = f.recorded + 1,
                              !.recorded_at = now + d,
                              !.touched = f.touched \cup {"cooldown"}]
           IN  /\ gemini_last_call_time' = r.last_call_time
               /\ gemini_user_cooldowns' = r.user_cooldowns
               /\ now' = now + d
               /\ th' = Frame(t,
                     IF f.user_id # NoUser THEN [g EXCEPT !.pc = "incr"]
                     ELSE [g EXCEPT !.pc = "done",
                             !.result = result_data(f.response,
                                                    models_to_try[f.idx])])
               /\ last_recorded' = f.user_id
    /\ UNCHANGED <<today, quotaVars, gemini_request_cache, fill, day_calls,
                   straddled, stored_since, swept>>

\* new_count = increment_daily_count(user_id); return result_data
Increment(t) ==
    /\ th[t].pc = "incr"
    /\ LET f == th[t]
       IN  /\ gemini_daily_counts' =
                 increment_daily_count(f.user_id, gemini_daily_counts)
           /\ th' = Frame(t, [f EXCEPT !.pc = "done",
                     !.touched = f.touched \cup {"quota"},
                     !.result = result_data(f.response, models_to_try[f.idx])])
           /\ IF f.admit_day = today
              THEN /\ day_calls' = DictSet(day_calls, f.user_id,
                                       DictGet(day_calls, f.user_id, 0) + 1)
                   /\ UNCHANGED straddled
              ELSE /\ straddled' = straddled \cup {f.user_id}
                   /\ UNCHANGED day_calls
    /\ UNCHANGED <<clock, cooldownVars, gemini_daily_reset_date,
                   gemini_request_cache, fill, stored_since, last_recorded,
                   swept>>

\* the caller has taken the result; the thread is free for the next request
Finish(t) ==
    /\ th[t].pc = "done"
    /\ th' = Frame(t, IdleFrame)
    /\ UNCHANGED <<clock, cooldownVars, quotaVars, gemini_request_cache,
                   fill, history>>

\* one step of the request thread t; cache_result's eviction statements
\* are EvictStep
RequestStep(t, user_ids, argset, responses) ==
    \/ Start(t, user_ids, argset)
    \/ CheckQuota(t)
    \/ CheckCooldown(t)
    \/ CacheLookup(t)
    \/ CallModel(t, responses)
    \/ CachePut(t)
    \/ CacheLen(t)
    \/ Record(t)
    \/ Increment(t)
    \/ Finish(t)

EvictStep(t) == EvictKeys(t) \/ EvictDel(t)

\* the thread runs on: every step of a request that has arrived
Proceed(t, responses) ==
    \/ CheckQuota(t)
    \/ CheckCooldown(t)
    \/ CacheLookup(t)
    \/ CallModel(t, responses)
    \/ CachePut(t)
    \/ CacheLen(t)
    \/ EvictStep(t)
    \/ Record(t)
    \/ Increment(t)

(***************************************************************************)
(* Environment and administration                                          *)
(***************************************************************************)
\* the wall clock advances, across midnight or not
Tick ==
    /\ \E d \in TickSteps, midnight \in {0, 1} :
        /\ now + d <= MaxTime
        /\ today + midnight <= MaxDay
        /\ now' = now + d
        /\ today' = today + midnight
        /\ day_calls' = IF midnight = 1 THEN EmptyDict ELSE day_calls
        /\ straddled' = IF midnight = 1 THEN {} ELSE straddled
    /\ UNCHANGED <<cooldownVars, quotaVars, gemini_request_cache, th, fill,
                   stored_since, last_recorded, swept>>

\* a reset that forgets the per-user map
reset_cooldown_global_only ==
    /\ gemini_last_call_time' = datetime_min
    /\ gemini_user_cooldowns # EmptyDict
    /\ UNCHANGED <<clock, quotaVars, gemini_user_cooldowns,
                   gemini_request_cache, th, fill, history>>

RECURSIVE SumValues(_)
SumValues(d) ==
    IF DOMAIN d = {} THEN 0
    ELSE LET k == CHOOSE x \in DOMAIN d : TRUE
         IN  d[k] + SumValues([x \in DOMAIN d \ {k} |-> d[x]])

\* get_gemini_status: what the status read reports of the quota tracker and
\* the cooldown gate; it reads the counts as they are stored
get_gemini_status(t_now, last_call_time, user_cooldowns, counts, reset_date, cache) ==
    [last_call_time |->
        IF last_call_time > datetime_min THEN ToString(last_call_time)
        ELSE "Never",
     seconds_since_last_call |-> t_now - last_call_time,
     cooldown_active |-> t_now - last_call_time < FREE_TIER_COOLDOWN,
     active_users |-> Cardinality(DOMAIN user_cooldowns),
     cache_size |-> Len(cache),
     cooldown_seconds |-> FREE_TIER_COOLDOWN,
     daily_reset_date |-> reset_date,
     total_daily_calls |-> SumValues(counts),
     daily_limit |-> FREE_TIER_DAILY_LIMIT,
     user_breakdown |-> counts]

\* POST /api/reset-cooldown
reset_cooldown ==
    /\ gemini_last_call_time' = datetime_min
    /\ gemini_user_cooldowns' = EmptyDict
    /\ UNCHANGED <<clock, quotaVars, gemini_request_cache, th, fill, history>>

\* a cleanup that deletes every per-user cooldown entry
cleanup_gemini_cache_all(t_now, cache, user_cooldowns) ==
    [cache |-> IF Len(cache) > CACHE_LIMIT THEN << >> ELSE cache,
     user_cooldowns |-> EmptyDict]

\* cleanup_gemini_cache, under gemini_cooldown_lock: the cache is cleared
\* when it holds more than 1000 entries, and the per-user cooldown entries
\* older than one hour are deleted
cleanup_gemini_cache(t_now, cache, user_cooldowns) ==
    LET users_to_remove ==
            {u \in DOMAIN user_cooldowns :
                t_now - user_cooldowns[u] > CLEANUP_MAX_AGE}
    IN  [cache |-> IF Len(cache) > CACHE_LIMIT THEN << >> ELSE cache,
         user_cooldowns |->
            [u \in DOMAIN user_cooldowns \ users_to_remove |->
                user_cooldowns[u]]]

\* clean_old_files, run by the registration handler while requests are
\* served: its effect on the Gemini state is its call of
\* cleanup_gemini_cache
clean_old_files ==
    /\ LET r == cleanup_gemini_cache(now, gemini_request_cache,
                                     gemini_user_cooldowns)
       IN  /\ gemini_request_cache' = r.cache
           /\ gemini_user_cooldowns' = r.user_cooldowns
           /\ swept' = DOMAIN gemini_user_cooldowns \ DOMAIN r.user_cooldowns
    /\ UNCHANGED <<clock, gemini_last_call_time, quotaVars, th, fill,
                   day_calls, straddled, stored_since, last_recorded>>

(***************************************************************************)
(* Spec: two request threads, two users, one image.  The cache stays far   *)
(* below CACHE_LIMIT, so cache_result never evicts here.                   *)
(***************************************************************************)
SpecArgs == {Args("a.png", "caption")}

SpecResponses == {Returned("text A"), Returned("text B"), Raised({"429"})}

Next ==
    \/ \E t \in Threads : RequestStep(t, Users, SpecArgs, SpecResponses)
    \/ Tick

Spec == Init /\ [][Next]_vars

(***************************************************************************)
(* SpecQuota: one user sends request after request from two threads while  *)
(* an operator resets the cooldowns, so that the daily count runs up to    *)
(* the limit.  calculate_image_hash fails for the image, so there is no    *)
(* fingerprint: every call is a non-cached one and cache_result is never   *)
(* called.                                                                 *)
(***************************************************************************)
QuotaUsers == {1}

QuotaArgs == {Args("gone.png", "caption")}

QuotaResponses == {Returned("text A")}

NextQuota ==
    \/ \E t \in Threads :
          \/ Start(t, QuotaUsers, QuotaArgs)
          \/ CheckQuota(t)
          \/ CheckCooldown(t)
          \/ CacheLookup(t)
          \/ CallModel(t, QuotaResponses)
          \/ Record(t)
          \/ Increment(t)
          \/ Finish(t)
    \/ Tick
    \/ reset_cooldown

SpecQuota == Init /\ [][NextQuota]_vars

(***************************************************************************)
(* SpecFallback: one request at a time, every kind of provider answer      *)
(***************************************************************************)
FallbackThreads == {1}

FallbackUsers == {NoUser, 1}

FallbackArgs == {Args("a.png", "caption"), Args("gone.png", "caption")}

FallbackResponses == AllResponses \cup {Raised({"quota", "404"})}

NextFallback ==
    \/ \E t \in FallbackThreads :
          RequestStep(t, FallbackUsers, FallbackArgs, FallbackResponses)
    \/ Tick

SpecFallback == Init /\ [][NextFallback]_vars

\* SpecFallbackFair: the request thread is scheduled again and again, and
\* generate_content answers every call
SpecFallbackFair ==
    /\ SpecFallback
    /\ \A t \in FallbackThreads : WF_vars(Proceed(t, FallbackResponses))

(***************************************************************************)
(* SpecFill: results for distinct images are cached one after another,     *)
(* each by a complete call of cache_result                                 *)
(***************************************************************************)
\* the fingerprint of the i-th image
FillHash(i) == ToString(i)

FillArgs == Args("a.png", "caption")

FillKey(i) == cache_key(FillHash(i), FillArgs)

FillValue == result_data("text A", models_to_try[1])

FillInsert ==
    /\ fill < CACHE_LIMIT + 1
    /\ fill' = fill + 1
    /\ gemini_request_cache' =
          cache_result(gemini_request_cache, FillKey(fill + 1), FillValue)
    /\ UNCHANGED <<clock, cooldownVars, quotaVars, th, history>>

NextFill == FillInsert

SpecFill == Init /\ [][NextFill]_vars

(***************************************************************************)
(* SpecCache: two concurrent requests for a new image arrive when          *)
(* CACHE_LIMIT results are cached, so that cache_result evicts             *)
(***************************************************************************)
FilledCache ==
    [i \in 1..CACHE_LIMIT |-> [key |-> FillKey(i), value |-> FillValue]]

InitCache ==
    /\ now = 0
    /\ today = 0
    /\ gemini_last_call_time = datetime_min
    /\ gemini_user_cooldowns = EmptyDict
    /\ gemini_daily_counts = EmptyDict
    /\ gemini_daily_reset_date = today
    /\ gemini_request_cache = FilledCache
    /\ th = [t \in Threads |-> IdleFrame]
    /\ fill = CACHE_LIMIT
    /\ day_calls = EmptyDict
    /\ straddled = {}
    /\ stored_since = [t \in Threads |-> FALSE]
    /\ last_recorded = NoUser
    /\ swept = {}

CacheUsers == {1, 2}

CacheArgs == {Args("a.png", "caption")}

CacheResponses == {Returned("text A"), Raised({"429"})}

NextCache ==
    \E t \in Threads :
        \/ RequestStep(t, CacheUsers, CacheArgs, CacheResponses)
        \/ EvictStep(t)

SpecCache == InitCache /\ [][NextCache]_vars

(***************************************************************************)
(* SpecLocks: the operations on the quota tracker and the cooldown gate,   *)
(* called by two threads in any order, with gemini_cooldown_lock and       *)
(* gemini_daily_lock acquired and released as the `with` statements do.    *)
(* A lock is held by the thread that has it in `held`.                     *)
(***************************************************************************)
LockOps ==
    {"check_daily_quota", "increment_daily_count", "check_gemini_cooldown",
     "update_gemini_call_time", "reset_cooldown", "cleanup_gemini_cache",
     "get_gemini_status"}

\* increment_daily_count acquiring the cooldown lock inside its own
LocksOf_increment_nests(o) ==
    CASE o = "check_daily_quota" -> <<"daily">>
      [] o = "increment_daily_count" -> <<"daily", "cooldown">>
      [] o = "get_gemini_status" -> <<"cooldown", "daily">>
      [] OTHER -> <<"cooldown">>

\* the locks an operation's `with` statements acquire, outermost first
LocksOf(o) ==
    CASE o \in {"check_daily_quota", "increment_daily_count"} -> <<"daily">>
      [] o = "get_gemini_status" -> <<"cooldown", "daily">>
      [] OTHER -> <<"cooldown">>

Holders(lock) ==
    {t \in Threads : \E i \in 1..Len(th[t].held) : th[t].held[i] = lock}

LockUser == 1

\* how often increment_daily_count is called on its own
MaxLockCount == 2

\* a thread calls one of the operations
LockBegin(t) ==
    /\ th[t].pc = "idle"
    /\ \E o \in LockOps :
          /\ o = "increment_daily_count"
                => DictGet(gemini_daily_counts, LockUser, 0) < MaxLockCount
          /\ th' = Frame(t, [IdleFrame EXCEPT !.pc = "lock", !.op = o,
                                              !.user_id = LockUser,
                                              !.todo = LocksOf(o)])
    /\ UNCHANGED <<clock, cooldownVars, quotaVars, gemini_request_cache,
                   fill, history>>

\* `with lock:` is entered: the thread waits until the lock is free
LockAcquire(t) ==
    /\ th[t].pc = "lock"
    /\ th[t].todo # << >>
    /\ Holders(Head(th[t].todo)) = {}
    /\ th' = Frame(t, [th[t] EXCEPT
                 !.held = Append(th[t].held, Head(th[t].todo)),
                 !.todo = Tail(th[t].todo),
                 !.pc = IF Tail(th[t].todo) = << >> THEN "body"
                        ELSE "lock"])
    /\ UNCHANGED <<clock, cooldownVars, quotaVars, gemini_request_cache,
                   fill, history>>

\* the statements of the operation inside its innermost `with`
LockBody(t) ==
    /\ th[t].pc = "body"
    /\ LET o == th[t].op
           q == check_daily_quota(LockUser, gemini_daily_counts,
                                  gemini_daily_reset_date, today)
           u == update_gemini_call_time(LockUser, now, now,
                                        gemini_user_cooldowns)
           c == cleanup_gemini_cache(now, gemini_request_cache,
                                     gemini_user_cooldowns)
       IN  /\ gemini_daily_counts' =
                 CASE o = "check_daily_quota" -> q.counts
                   [] o = "increment_daily_count" ->
                        increment_daily_count(LockUser, gemini_daily_counts)
                   [] OTHER -> gemini_daily_counts
           /\ gemini_daily_reset_date' =
                 IF o = "check_daily_quota" THEN q.reset_date
                 ELSE gemini_daily_reset_date
           /\ gemini_last_call_time' =
                 CASE o = "update_gemini_call_time" -> u.last_call_time
                   [] o = "reset_cooldown" -> datetime_min
                   [] OTHER -> gemini_last_call_time
           /\ gemini_user_cooldowns' =
                 CASE o = "update_gemini_call_time" -> u.user_cooldowns
                   [] o = "reset_cooldown" -> EmptyDict
                   [] o = "cleanup_gemini_cache" -> c.user_cooldowns
                   [] OTHER -> gemini_user_cooldowns
           /\ gemini_request_cache' =
                 IF o = "cleanup_gemini_cache" THEN c.cache
                 ELSE gemini_request_cache
           /\ last_recorded' =
                 IF o = "update_gemini_call_time" THEN LockUser
                 ELSE last_recorded
           /\ swept' =
                 IF o = "cleanup_gemini_cache"
                 THEN DOMAIN gemini_user_cooldowns \ DOMAIN c.user_cooldowns
                 ELSE swept
    /\ th' = Frame(t, [th[t] EXCEPT !.pc = "unlock"])
    /\ UNCHANGED <<clock, fill, day_calls, straddled, stored_since>>

\* a `with` block is left: the lock acquired last is released
LockRelease(t) ==
    /\ th[t].pc = "unlock"
    /\ LET rest == SubSeq(th[t].held, 1, Len(th[t].held) - 1)
       IN  th' = Frame(t, IF rest = << >> THEN IdleFrame
                          ELSE [th[t] EXCEPT !.held = rest])
    /\ UNCHANGED <<clock, cooldownVars, quotaVars, gemini_request_cache,
                   fill, history>>

\* the steps of an operation that has been called
LockStep(t) == LockAcquire(t) \/ LockBody(t) \/ LockRelease(t)

NextLocks == \E t \in Threads : LockBegin(t) \/ LockStep(t)

\* a thread that can take a step again and again takes it: a lock that is
\* released again and again is acquired by the thread waiting for it
SpecLocks ==
    /\ Init
    /\ [][NextLocks]_vars
    /\ \A t \in Threads : SF_vars(LockStep(t))

(***************************************************************************)
(* SpecGate: the cooldown gate over more than an hour: calls are recorded  *)
(* for two users and for requests without a user, the operator resets the  *)
(* cooldowns and the cleanup runs, in any order                            *)
(***************************************************************************)
MaxGateTime == 3660

\* the clock advances by seconds within a minute, or by an hour
GateTick ==
    /\ \E d \in TickSteps \cup {CLEANUP_MAX_AGE} :
          /\ now + d <= MaxGateTime
          /\ d < CLEANUP_MAX_AGE => (now % CLEANUP_MAX_AGE) + d <= MaxTime
          /\ now' = now + d
    /\ UNCHANGED <<today, cooldownVars, quotaVars, gemini_request_cache, th,
                   fill, history>>

\* update_gemini_call_time(user_id), called after a successful provider
\* call; the clock is read twice
GateUpdate ==
    /\ \E user_id \in Users \cup {NoUser}, d \in {0} \cup TickSteps :
          /\ (now % CLEANUP_MAX_AGE) + d <= MaxTime
          /\ LET r == update_gemini_call_time(user_id, now, now + d,
                                              gemini_user_cooldowns)
             IN  /\ gemini_last_call_time' = r.last_call_time
                 /\ gemini_user_cooldowns' = r.user_cooldowns
          /\ now' = now + d
          /\ last_recorded' = user_id
    /\ UNCHANGED <<today, quotaVars, gemini_request_cache, th, fill,
                   day_calls, straddled, stored_since, swept>>

NextGate ==
    \/ GateUpdate
    \/ GateTick
    \/ reset_cooldown
    \/ clean_old_files

SpecGate == Init /\ [][NextGate]_vars

(***************************************************************************)
(* SpecSweep: one request at a time for a new image while CACHE_LIMIT      *)
(* results are cached, and the periodic cleanup runs at any moment         *)
(***************************************************************************)
NextSweep ==
    \/ \E t \in FallbackThreads :
          \/ RequestStep(t, CacheUsers, CacheArgs, CacheResponses)
          \/ EvictStep(t)
    \/ clean_old_files

SpecSweep == InitCache /\ [][NextSweep]_vars

(***************************************************************************)
(* Properties                                                              *)
(***************************************************************************)
\* thread t takes a step of its request from the statement at `pc`
StepFrom(t, pc) == th[t].pc = pc /\ th'[t] # th[t]

FrameHash(f) == calculate_image_hash(f.args.image_path)

\* the composite key of the request in frame f is in the cache
KeyCached(f) ==
    /\ FrameHash(f) # None
    /\ \E i \in 1..Len(gemini_request_cache) :
          gemini_request_cache[i].key = cache_key(FrameHash(f), f.args)

\* frame f holds a result with cached=True and the text stored under its key
ReturnsStored(f) ==
    /\ f.pc = "done"
    /\ "cached" \in DOMAIN f.result
    /\ f.result.cached
    /\ \E i \in 1..Len(gemini_request_cache) :
          /\ gemini_request_cache[i].key = cache_key(FrameHash(f), f.args)
          /\ gemini_request_cache[i].value.text = f.result.text

\* C1 as stated: a request whose composite key is in the cache (an earlier
\* request stored a provider response under it, not evicted since) returns
\* cached=True with the stored text, and changes neither the cooldown
\* timestamps nor any user's daily count.
C1_SecondRequestIsCached ==
    [][\A t \in Threads :
         (\E pc \in {"quota", "cooldown", "cache"} : StepFrom(t, pc))
         /\ KeyCached(th[t])
         => /\ UNCHANGED <<cooldownVars, gemini_daily_counts>>
            /\ th'[t].pc = "done" => ReturnsStored(th'[t])]_vars

\* C1 amended: the request returns cached=True with the stored text once it
\* has passed the quota and the cooldown check; none of its steps touches
\* the cooldown timestamps, and the only change to the counts is the day
\* reset of its check_daily_quota.
C1_AdmittedRequestIsCached ==
    [][\A t \in Threads :
         (\E pc \in {"quota", "cooldown", "cache"} : StepFrom(t, pc))
         /\ KeyCached(th[t])
         => /\ UNCHANGED cooldownVars
            /\ \/ UNCHANGED gemini_daily_counts
               \/ /\ today # gemini_daily_reset_date
                  /\ th[t].pc = "quota"
                  /\ gemini_daily_counts' = EmptyDict
            /\ th[t].pc = "cache" =>
                  /\ ReturnsStored(th'[t])
                  /\ UNCHANGED quotaVars]_vars

C1_Witness ==
    \E t \in Threads :
        /\ ReturnsStored(th[t])
        /\ th[t].user_id \in DOMAIN gemini_daily_counts

\* C2: when a user has made exactly FREE_TIER_DAILY_LIMIT successful
\* non-cached calls today (each admitted and counted within the day), that
\* user's next check_daily_quota answers has_quota=False with
\* current_count=15 and the request is turned down as quota_exceeded; a
\* check_daily_quota made after the date has advanced answers
\* has_quota=True with current_count=0.
C2_QuotaExhaustedThenReset ==
    [][\A t \in Threads :
         StepFrom(t, "quota") =>
           /\ DictGet(day_calls, th[t].user_id, 0) = FREE_TIER_DAILY_LIMIT
              /\ th[t].user_id \notin straddled
              => /\ ~th'[t].has_quota
                 /\ th'[t].current_count = FREE_TIER_DAILY_LIMIT
                 /\ th'[t].pc = "done"
                 /\ th'[t].result = QuotaRejected
           /\ today # gemini_daily_reset_date
              => /\ th'[t].has_quota
                 /\ th'[t].current_count = 0
                 /\ th'[t].pc = "cooldown"]_vars

\* one request of the user was turned down at 15 of 15 yesterday and has not
\* been collected yet; another one, checked after midnight, is admitted at 0
C2_Witness ==
    \E t1, t2 \in Threads :
        /\ th[t1].pc = "done"
        /\ th[t1].result = QuotaRejected
        /\ th[t1].current_count = FREE_TIER_DAILY_LIMIT
        /\ th[t1].admit_day = 0
        /\ th[t2].user_id = th[t1].user_id
        /\ th[t2].pc = "cooldown"
        /\ th[t2].admit_day = 1
        /\ th[t2].has_quota
        /\ th[t2].current_count = 0
        /\ gemini_daily_reset_date = 1

\* C3 as stated: no user's stored daily count ever exceeds the daily limit,
\* also when requests of the same user are processed concurrently.
C3_CountNeverExceedsLimit ==
    \A u \in DOMAIN gemini_daily_counts :
        gemini_daily_counts[u] <= FREE_TIER_DAILY_LIMIT

\* the requests of user u that have passed check_daily_quota and have not
\* returned yet
InFlight(u) ==
    {t \in Threads :
        /\ th[t].user_id = u
        /\ th[t].pc \in {"cooldown", "cache", "call", "put", "put_len",
                          "evict_keys", "evict_del", "record", "incr"}}

\* C3 amended: a request is admitted only while the count is below the
\* limit, and the check and the increment are separate steps: the count
\* plus the requests of the user in flight never exceeds the limit by more
\* than the number of request threads minus one.  With requests processed
\* one at a time the count never exceeds the limit.
C3_CountExceedsLimitOnlyByInFlight ==
    \A u \in Users :
        DictGet(gemini_daily_counts, u, 0) + Cardinality(InFlight(u))
            <= FREE_TIER_DAILY_LIMIT - 1 + Cardinality(Threads)

\* two requests admitted at 14 have both been counted
C3_Witness ==
    \E u \in Users :
        /\ u \in DOMAIN gemini_daily_counts
        /\ gemini_daily_counts[u] = FREE_TIER_DAILY_LIMIT + 1
        /\ DictGet(day_calls, u, 0) = FREE_TIER_DAILY_LIMIT + 1

\* the per-user cooldown of u is active: u's recorded call is younger than
\* FREE_TIER_COOLDOWN
UserActive(u) ==
    /\ u \in DOMAIN gemini_user_cooldowns
    /\ now - gemini_user_cooldowns[u] < FREE_TIER_COOLDOWN

GlobalActive == now - gemini_last_call_time < FREE_TIER_COOLDOWN

\* C4 as stated: a user whose recorded call is `elapsed` < 60 seconds old is
\* rejected with wait_time = FREE_TIER_COOLDOWN - elapsed.
C4_WaitIsUserRemainder ==
    [][\A t \in Threads :
         StepFrom(t, "cooldown") /\ UserActive(th[t].user_id)
         => /\ ~th'[t].can_call
            /\ th'[t].wait_time = FREE_TIER_COOLDOWN
                   - (now - gemini_user_cooldowns[th[t].user_id])]_vars

\* C4 amended: such a user is rejected; the wait is the remainder of the
\* global cooldown when that is active, and the remainder of the user's own
\* cooldown otherwise.
C4_WaitIsGlobalThenUserRemainder ==
    [][\A t \in Threads :
         StepFrom(t, "cooldown") /\ UserActive(th[t].user_id)
         => /\ ~th'[t].can_call
            /\ th'[t].pc = "done"
            /\ th'[t].result.cooldown = th'[t].wait_time
            /\ th'[t].wait_time =
                 IF GlobalActive
                 THEN FREE_TIER_COOLDOWN - (now - gemini_last_call_time)
                 ELSE FREE_TIER_COOLDOWN
                        - (now - gemini_user_cooldowns[th[t].user_id])]_vars

\* a user rejected by the per-user cooldown alone
C4_Witness ==
    \E t \in Threads :
        /\ th[t].pc = "done"
        /\ ~th[t].can_call
        /\ UserActive(th[t].user_id)
        /\ ~GlobalActive
        /\ th[t].wait_time = FREE_TIER_COOLDOWN
               - (now - gemini_user_cooldowns[th[t].user_id])

\* C5: with the global and the caller's own cooldown both active,
\* check_gemini_cooldown rejects with the global message and the remainder
\* of the global cooldown.
C5_GlobalDominates ==
    [][\A t \in Threads :
         StepFrom(t, "cooldown") /\ GlobalActive /\ UserActive(th[t].user_id)
         => /\ ~th'[t].can_call
            /\ th'[t].message = GlobalMessage
            /\ th'[t].wait_time =
                 FREE_TIER_COOLDOWN - (now - gemini_last_call_time)]_vars

\* both active with different remainders, and the global one reported
C5_Witness ==
    \E t \in Threads :
        /\ th[t].pc = "done"
        /\ th[t].message = GlobalMessage
        /\ GlobalActive
        /\ UserActive(th[t].user_id)
        /\ gemini_user_cooldowns[th[t].user_id] # gemini_last_call_time
        /\ th[t].wait_time = FREE_TIER_COOLDOWN - (now - gemini_last_call_time)

\* C6: after CACHE_LIMIT + 1 distinct keys have been cached one after
\* another, starting from the empty cache, the cache holds at most 901
\* entries: the EVICT_BATCH keys cached first are gone and every later key
\* is present.  Up to CACHE_LIMIT keys nothing is removed.
C6_OldestBatchEvicted ==
    /\ fill <= CACHE_LIMIT =>
          /\ Len(gemini_request_cache) = fill
          /\ \A i \in 1..fill : gemini_request_cache[i].key = FillKey(i)
    /\ fill = CACHE_LIMIT + 1 =>
          /\ Len(gemini_request_cache) <= CACHE_LIMIT + 1 - EVICT_BATCH
          /\ \A i \in 1..fill :
                CacheHas(gemini_request_cache, FillKey(i)) <=> i > EVICT_BATCH

C6_Witness ==
    /\ fill = CACHE_LIMIT + 1
    /\ Len(gemini_request_cache) = 901
    /\ ~CacheHas(gemini_request_cache, FillKey(EVICT_BATCH))
    /\ gemini_request_cache[1].key = FillKey(EVICT_BATCH + 1)
    /\ gemini_request_cache[901].key = FillKey(CACHE_LIMIT + 1)

\* C7: the candidates are called in list order, a not-found answer moves on
\* to the next one, and once a candidate has returned a non-empty text no
\* further candidate is called for the request, which reports that
\* candidate as model_used; also while other requests run concurrently and
\* store into the same cache.
C7_FirstTextEndsLoop ==
    \A t \in Threads :
        /\ \A i \in 1..Len(th[t].calls) :
              /\ th[t].calls[i].model = models_to_try[i]
              /\ i < Len(th[t].calls) =>
                    Classify(th[t].calls[i].response, NoError).next
                        \in {"continue", "success"}
        /\ th[t].succeeded_at # 0 =>
              /\ Len(th[t].calls) = th[t].succeeded_at
              /\ th[t].pc = "done" =>
                    /\ "model_used" \in DOMAIN th[t].result
                    /\ th[t].result.model_used =
                          models_to_try[th[t].succeeded_at]

\* C10: when a request that was admitted, missed the cache and got a text
\* from the provider returns, it returns a success with cached=False and
\* one of the candidates as model_used; its key is in the cache when the
\* image had a fingerprint; and, for a request of a user, the return step
\* makes that user's daily count one more than before (0 becomes 1) and
\* leaves every other user's count unchanged.  The step that records the
\* call has set the global and the user's cooldown timestamp to the time
\* of the clock.
C10_ProviderSuccessIsReturned ==
    [][/\ \A t \in Threads :
         th[t].pc # "done" /\ th'[t].pc = "done" /\ th'[t].succeeded_at # 0
         => LET f == th'[t]
            IN  /\ "model_used" \in DOMAIN f.result
                /\ \E i \in 1..Len(models_to_try) :
                      f.result.model_used = models_to_try[i]
                /\ f.result.cached = FALSE
                /\ f.result.quota_exceeded = FALSE
                /\ f.result.text \in Texts
                /\ f.image_hash # None =>
                      CacheHas(gemini_request_cache',
                               cache_key(f.image_hash, f.args))
                /\ f.user_id # NoUser =>
                      /\ gemini_daily_counts' =
                            DictSet(gemini_daily_counts, f.user_id,
                              DictGet(gemini_daily_counts, f.user_id, 0) + 1)
                /\ f.user_id = NoUser => UNCHANGED gemini_daily_counts
       /\ \A t \in Threads :
            StepFrom(t, "record") =>
               /\ gemini_last_call_time' = now
               /\ th[t].user_id # NoUser =>
                     /\ th[t].user_id \in DOMAIN gemini_user_cooldowns'
                     /\ gemini_user_cooldowns'[th[t].user_id] = now']_vars

\* C8: a provider call that fails with a rate/quota error ("429" or "quota"
\* in the error text) is the last call of its request: the loop is left at
\* once, and the request returns a result with quota_exceeded=True.
C8_QuotaErrorStopsLoop ==
    \A t \in Threads :
        \A i \in 1..Len(th[t].calls) :
            LET resp == th[t].calls[i].response
            IN  resp.raised /\ IsQuotaError(resp.error_str)
                => /\ i = Len(th[t].calls)
                   /\ th[t].pc = "done"
                   /\ "quota_exceeded" \in DOMAIN th[t].result
                   /\ th[t].result.quota_exceeded
                   /\ th[t].result.cached = FALSE

\* the first candidate was not found, the second one hit the rate limit and
\* the third one was never called
C8_Witness ==
    \E t \in Threads :
        /\ th[t].pc = "done"
        /\ Len(th[t].calls) = 2
        /\ Len(models_to_try) = 3
        /\ IsNotFoundError(th[t].calls[1].response.error_str)
        /\ th[t].calls[2].model = models_to_try[2]
        /\ th[t].calls[2].response = Raised({"429"})
        /\ "quota_exceeded" \in DOMAIN th[t].result
        /\ th[t].result.quota_exceeded

\* C9 as stated: check_daily_quota and check_gemini_cooldown change neither
\* the counts, the reset date nor the cooldown timestamps; only
\* increment_daily_count and update_gemini_call_time do.
C9_ChecksNeverMutate ==
    [][/\ \A t \in Threads :
            StepFrom(t, "quota") \/ StepFrom(t, "cooldown")
            => UNCHANGED <<quotaVars, cooldownVars>>
       /\ quotaVars' # quotaVars => \E t \in Threads : StepFrom(t, "incr")
       /\ cooldownVars' # cooldownVars
            => \E t \in Threads : StepFrom(t, "record")]_vars

\* C9 amended: check_gemini_cooldown changes nothing; check_daily_quota
\* leaves the cooldown state alone and changes the quota state only when
\* the date differs from the reset date: then it clears every count and
\* sets the reset date to today.  Apart from that day reset, only
\* increment_daily_count changes the quota state and only
\* update_gemini_call_time the cooldown state.
C9_ChecksMutateOnlyOnNewDay ==
    [][/\ \A t \in Threads :
            /\ StepFrom(t, "cooldown") => UNCHANGED <<quotaVars, cooldownVars>>
            /\ StepFrom(t, "quota") =>
                  /\ UNCHANGED cooldownVars
                  /\ IF today = gemini_daily_reset_date
                     THEN UNCHANGED quotaVars
                     ELSE /\ gemini_daily_counts' = EmptyDict
                          /\ gemini_daily_reset_date' = today
       /\ quotaVars' # quotaVars
            => \E t \in Threads : StepFrom(t, "incr") \/ StepFrom(t, "quota")
       /\ cooldownVars' # cooldownVars
            => \E t \in Threads : StepFrom(t, "record")]_vars

\* a quota check made after midnight has reset the tracker of a user who
\* had made a call the day before
C9_Witness ==
    \E t \in Threads :
        /\ th[t].pc = "cooldown"
        /\ th[t].admit_day = 1
        /\ gemini_daily_reset_date = 1
        /\ gemini_daily_counts = EmptyDict
        /\ gemini_user_cooldowns # EmptyDict

\* C11: a request of a user whose count for today has reached
\* FREE_TIER_DAILY_LIMIT returns from its quota check with the
\* quota-exceeded outcome (quota_exceeded=True, cooldown 3600): no provider
\* call has been made, check_gemini_cooldown is not evaluated, and the
\* cooldown state and the cache are as before.
C11_QuotaRejectionTouchesNothing ==
    [][\A t \in Threads :
         /\ StepFrom(t, "quota")
         /\ today = gemini_daily_reset_date
         /\ DictGet(gemini_daily_counts, th[t].user_id, 0)
               >= FREE_TIER_DAILY_LIMIT
         => /\ th'[t].pc = "done"
            /\ th'[t].result.quota_exceeded
            /\ th'[t].result.cooldown = 3600
            /\ th'[t].result.cached = FALSE
            /\ th'[t].calls = << >>
            /\ th'[t].message = None
            /\ UNCHANGED <<cooldownVars, gemini_request_cache, quotaVars>>]_vars

\* rejected at 15 of 15 while both cooldowns had run out, still no call
C11_Witness ==
    \E t \in Threads :
        /\ th[t].pc = "done"
        /\ th[t].result = QuotaRejected
        /\ th[t].calls = << >>
        /\ today = gemini_daily_reset_date
        /\ DictGet(gemini_daily_counts, th[t].user_id, 0)
              = FREE_TIER_DAILY_LIMIT
        /\ ~GlobalActive
        /\ ~UserActive(th[t].user_id)

\* C12: a request that check_gemini_cooldown denies returns the cooldown
\* outcome whose cooldown is the wait time the check returned; no provider
\* call has been made, and the counts, the reset date, the cooldown
\* timestamps and the cache are as before the check.
C12_CooldownRejectionTouchesNothing ==
    [][\A t \in Threads :
         LET r == check_gemini_cooldown(th[t].user_id, now,
                       gemini_last_call_time, gemini_user_cooldowns)
         IN  StepFrom(t, "cooldown") /\ ~r.can_call
             => /\ th'[t].pc = "done"
                /\ th'[t].result.cooldown = r.wait_time
                /\ th'[t].result.text = r.message
                /\ th'[t].result.cached = FALSE
                /\ th'[t].calls = << >>
                /\ UNCHANGED <<quotaVars, cooldownVars,
                               gemini_request_cache>>]_vars

\* turned down with half of the cooldown left, the key being in the cache
C12_Witness ==
    \E t \in Threads :
        /\ th[t].pc = "done"
        /\ ~th[t].can_call
        /\ th[t].result.cooldown = 30
        /\ th[t].calls = << >>
        /\ KeyCached(th[t])

\* reset_cooldown is the only step that changes the cooldown state and
\* leaves every request thread where it is
IsResetCooldown == th' = th /\ cooldownVars' # cooldownVars

\* C13: reset_cooldown sets the global last-call time to datetime.min and
\* empties the per-user map, leaves counts, reset date and cache unchanged,
\* and right afterwards check_gemini_cooldown lets every user call.
C13_ResetClearsCooldownsOnly ==
    [][IsResetCooldown =>
         /\ gemini_last_call_time' = datetime_min
         /\ gemini_user_cooldowns' = EmptyDict
         /\ UNCHANGED <<quotaVars, gemini_request_cache, clock>>
         /\ \A u \in Users \cup {NoUser} :
              check_gemini_cooldown(u, now', gemini_last_call_time',
                                    gemini_user_cooldowns').can_call]_vars

\* the cooldowns are clear at a time when a call recorded at this very
\* second has been counted
C13_Witness ==
    /\ gemini_last_call_time = datetime_min
    /\ gemini_user_cooldowns = EmptyDict
    /\ \E u \in Users : DictGet(day_calls, u, 0) >= 1
    /\ now = 0

\* how the loop body classifies the provider's answer to one call
IsQuotaAnswer(resp) == resp.raised /\ IsQuotaError(resp.error_str)

IsNotFoundAnswer(resp) ==
    resp.raised /\ ~IsQuotaError(resp.error_str)
                /\ IsNotFoundError(resp.error_str)

IsOtherError(resp) ==
    resp.raised /\ ~IsQuotaError(resp.error_str)
                /\ ~IsNotFoundError(resp.error_str)
                /\ ~IsUnavailableError(resp.error_str)

\* the request in frame f has returned the failure of its model loop
LoopFailed(f) ==
    /\ f.pc = "done"
    /\ f.calls # << >>
    /\ "model_used" \notin DOMAIN f.result

\* C14: when every candidate has failed, the outcome follows the last
\* classified failure: a quota error gives quota_exceeded=True and cooldown
\* 86400; not-found from all candidates gives the configuration-error
\* outcome with cooldown 0; any other error gives cooldown 300.
C14_FailureOutcomeByLastError ==
    \A t \in Threads :
        LoopFailed(th[t]) /\ th[t].succeeded_at = 0 =>
            LET calls == th[t].calls
                last == calls[Len(calls)].response
            IN  /\ IsQuotaAnswer(last) =>
                      /\ th[t].result.quota_exceeded
                      /\ th[t].result.cooldown = 86400
                /\ (\A i \in 1..Len(calls) : IsNotFoundAnswer(calls[i].response))
                      => /\ th[t].result.cooldown = 0
                         /\ ~th[t].result.quota_exceeded
                /\ IsOtherError(last) =>
                      /\ th[t].result.cooldown = 300
                      /\ ~th[t].result.quota_exceeded

\* C15: a provider error that is neither of the quota class nor of the
\* not-found or unavailable class ends the request: it is the last call,
\* and the request returns the generic error outcome.
C15_OtherErrorIsFatal ==
    \A t \in Threads :
        \A i \in 1..Len(th[t].calls) :
            IsOtherError(th[t].calls[i].response)
            => /\ i = Len(th[t].calls)
               /\ th[t].pc = "done"
               /\ th[t].result.cooldown = 300
               /\ ~th[t].result.quota_exceeded

\* the request in frame f has returned a success of the provider
Succeeded(f) == f.pc = "done" /\ "model_used" \in DOMAIN f.result

\* C16 as stated: every request that has attempted the provider and was not
\* stopped by a quota error has set the global last-call time, whether it
\* succeeded or failed.
C16_EveryAttemptSetsTimestamp ==
    \A t \in Threads :
        /\ th[t].pc = "done"
        /\ th[t].calls # << >>
        /\ ~IsQuotaAnswer(th[t].calls[Len(th[t].calls)].response)
        => th[t].recorded >= 1

\* C16 amended: update_gemini_call_time runs only after a candidate has
\* returned text, and sets the global last-call time to the reading of the
\* clock; a request that has attempted the provider has run it exactly when
\* it returns a success, and a request whose attempts have all failed, by a
\* quota error or any other, has not run it.
C16_TimestampSetOnlyOnSuccess ==
    [][/\ \A t \in Threads :
            /\ StepFrom(t, "record") =>
                  /\ gemini_last_call_time' = now
                  /\ th[t].succeeded_at # 0
            /\ th[t].pc # "done" /\ th'[t].pc = "done"
               /\ th'[t].calls # << >>
               => /\ th'[t].recorded <= 1
                  /\ th'[t].recorded = 1 <=> Succeeded(th'[t])
                  /\ LoopFailed(th'[t]) => "cooldown" \notin th'[t].touched
       /\ gemini_last_call_time' # gemini_last_call_time
            => IsResetCooldown \/ \E t \in Threads : StepFrom(t, "record")]_vars

\* all three candidates were called, the last error was no quota error, and
\* the global last-call time is still "never"
C16_Witness ==
    \E t \in Threads :
        /\ LoopFailed(th[t])
        /\ Len(th[t].calls) = Len(models_to_try)
        /\ IsOtherError(th[t].calls[Len(th[t].calls)].response)
        /\ th[t].recorded = 0
        /\ gemini_last_call_time = datetime_min

\* C17: a request that returns a failure of the provider adapter (quota
\* stop, every candidate failed, any other error) has written none of the
\* counts, the reset date, the cooldown timestamps and the cache.
C17_FailureWritesNothing ==
    \A t \in Threads : LoopFailed(th[t]) => th[t].touched = {}

\* the calls of the request in frame f that returned a non-empty text
TextCalls(f) ==
    {i \in 1..Len(f.calls) :
        ~f.calls[i].response.raised /\ f.calls[i].response.text # ""}

\* C18: update_gemini_call_time is run exactly once for each provider call
\* that returned a non-empty text, and not at all by a request that ends in
\* a cache hit, a quota rejection or a cooldown rejection, whatever other
\* requests do concurrently.
C18_RecordedOncePerTextCall ==
    \A t \in Threads :
        /\ th[t].recorded <= Cardinality(TextCalls(th[t]))
        /\ th[t].pc = "done" =>
              th[t].recorded = Cardinality(TextCalls(th[t]))

\* the status read at this moment
Status ==
    get_gemini_status(now, gemini_last_call_time, gemini_user_cooldowns,
                      gemini_daily_counts, gemini_daily_reset_date,
                      gemini_request_cache)

\* C19: no count is read or written while the date differs from the stored
\* reset date: check_daily_quota and increment_daily_count leave the reset
\* date at today, an increment made on a new day starts from the cleared
\* map, and the status read on a new day reports no calls of the day
\* before.
C19_CountsOnlyOfResetDate ==
    [][/\ \A t \in Threads :
            /\ StepFrom(t, "quota") \/ StepFrom(t, "incr")
                  => gemini_daily_reset_date' = today
            /\ StepFrom(t, "incr") /\ today # gemini_daily_reset_date
                  => gemini_daily_counts' =
                        DictSet(EmptyDict, th[t].user_id, 1)
       /\ today # gemini_daily_reset_date =>
            /\ Status.total_daily_calls = 0
            /\ Status.user_breakdown = EmptyDict]_vars

\* the request threads that are inside cache_result, between its store and
\* the end of its eviction
InCacheResult ==
    {t \in Threads : th[t].pc \in {"put_len", "evict_keys", "evict_del"}}

IsCachePut(t) == StepFrom(t, "put")

\* the request of thread t missed the cache and its last provider call
\* returned non-empty text
StoresProviderSuccess(t) ==
    /\ th[t].calls # << >>
    /\ ~th[t].calls[Len(th[t].calls)].response.raised
    /\ th[t].calls[Len(th[t].calls)].response.text # ""
    /\ th[t].response = th[t].calls[Len(th[t].calls)].response.text
    /\ ~("cached" \in DOMAIN th[t].result)

\* C21 as stated: a cache entry is written only by a request whose provider
\* call succeeded after a cache miss, and no request ever stores under a key
\* that is present, also when two requests with the same key run
\* concurrently.
C21_EntryNeverOverwritten ==
    [][\A t \in Threads :
          IsCachePut(t) =>
              /\ StoresProviderSuccess(t)
              /\ ~KeyCached(th[t])]_vars

\* C21 amended: a cache entry is written only by a request whose provider
\* call succeeded after a cache miss, and a request stores under a key that
\* is present only when the entry was stored after that request's own cache
\* lookup (it looked the key up, missed, and another request, or an earlier
\* candidate of itself, stored first).
C21_OverwrittenOnlyAfterOwnMiss ==
    [][\A t \in Threads :
          IsCachePut(t) =>
              /\ StoresProviderSuccess(t)
              /\ KeyCached(th[t]) => stored_since[t]]_vars

\* two requests have both stored a result under the same key
C21_Witness ==
    /\ Len(gemini_request_cache) = 1
    /\ \A t \in Threads :
          /\ th[t].pc \in {"put_len", "record", "incr", "done"}
          /\ "cache" \in th[t].touched
    /\ \E t \in Threads : stored_since[t]

\* C22: every access to the response cache is made under a lock of the
\* cache, so no two threads are inside a cache operation at the same time
\* (the quota and cooldown operations are single steps of the model, each
\* under its lock).
C22_CacheOperationsExclusive == Cardinality(InCacheResult) <= 1

\* C23: cleanup_gemini_cache only removes entries and no operation running
\* concurrently with it fails: every key a request is about to delete in
\* cache_result's eviction loop is still in the cache (no `del` raises
\* KeyError), and a request whose provider call returned text is not sent
\* on to another candidate.
C23_CleanupNeverFailsARequest ==
    \A t \in Threads :
        /\ th[t].pc = "evict_del" =>
              \A i \in 1..Len(th[t].keys_to_remove) :
                  CacheHas(gemini_request_cache, th[t].keys_to_remove[i])
        /\ th[t].succeeded_at # 0 => th[t].idx = th[t].succeeded_at

\* the threads whose request of user u is waiting for the provider's answer
Calling(u) == {t \in Threads : th[t].pc = "call" /\ th[t].user_id = u}

\* C24 as stated: two calls recorded for the same user are at least
\* FREE_TIER_COOLDOWN seconds apart, and no two provider calls of the same
\* user are in flight at the same time, in every interleaving.
C24_UserCallsSerialized ==
    [][/\ \A t \in Threads :
            LET u == th[t].user_id
            IN  StepFrom(t, "record") /\ u # NoUser
                   /\ u \in DOMAIN gemini_user_cooldowns
                => gemini_user_cooldowns'[u] - gemini_user_cooldowns[u]
                      >= FREE_TIER_COOLDOWN
       /\ \A u \in Users : Cardinality(Calling(u)) <= 1]_vars

\* C24 amended: the gate spaces admissions, not calls.  A request of a user
\* is admitted only when the global and the user's recorded timestamps are
\* at least FREE_TIER_COOLDOWN seconds old at the moment of its check; the
\* check and the later update are separate critical sections, so a call is
\* recorded less than FREE_TIER_COOLDOWN seconds after the user's previous
\* one only by a request that passed its check before that previous call
\* was recorded.
C24_UserAdmissionsSpaced ==
    [][\A t \in Threads :
          LET u == th[t].user_id
          IN  /\ StepFrom(t, "cooldown") /\ th'[t].can_call
                 => /\ now - gemini_last_call_time >= FREE_TIER_COOLDOWN
                    /\ u # NoUser /\ u \in DOMAIN gemini_user_cooldowns
                       => now - gemini_user_cooldowns[u]
                             >= FREE_TIER_COOLDOWN
              /\ StepFrom(t, "record") /\ u # NoUser
                    /\ u \in DOMAIN gemini_user_cooldowns
                    /\ gemini_user_cooldowns'[u] - gemini_user_cooldowns[u]
                          < FREE_TIER_COOLDOWN
                 => th[t].checked_at <= gemini_user_cooldowns[u]]_vars

\* two requests of one user have both recorded a call, less than
\* FREE_TIER_COOLDOWN seconds apart
C24_Witness ==
    \E t1, t2 \in Threads :
        /\ t1 # t2
        /\ th[t1].user_id = th[t2].user_id
        /\ th[t1].user_id # NoUser
        /\ th[t1].recorded = 1 /\ th[t2].recorded = 1
        /\ th[t1].recorded_at <= th[t2].recorded_at
        /\ th[t2].recorded_at - th[t1].recorded_at < FREE_TIER_COOLDOWN

\* the requests of frames f and g have the same image and parameters
SameRequest(f, g) ==
    /\ f.args = g.args
    /\ FrameHash(f) # None
    /\ FrameHash(f) = FrameHash(g)

\* C25: there is no in-flight deduplication: a request that misses the cache
\* goes on to the provider whatever the other requests are doing, also when
\* a request with the same image and parameters is already at the provider.
C25_MissGoesToProvider ==
    [][\A t \in Threads :
          StepFrom(t, "cache") /\ ~KeyCached(th[t])
              => /\ th'[t].pc = "call"
                 /\ th'[t].idx = 1
                 /\ ~("cached" \in DOMAIN th'[t].result)]_vars

\* two concurrent requests with the same new image and parameters have both
\* passed the three checks and have both invoked the provider
C25_Witness ==
    \E t1, t2 \in Threads :
        /\ t1 # t2
        /\ SameRequest(th[t1], th[t2])
        /\ ~KeyCached(th[t1])
        /\ th[t1].calls # << >> /\ th[t2].calls # << >>
        /\ th[t1].can_call /\ th[t2].can_call
        /\ th[t1].has_quota /\ th[t2].has_quota

\* the provider calls of frame f are the candidates in list order, one call
\* for each
CallsInListOrder(f) ==
    /\ Len(f.calls) <= Len(models_to_try)
    /\ \A i \in 1..Len(f.calls) : f.calls[i].model = models_to_try[i]

\* how the loop of a finished request has ended
EndedInSuccess(f) == "model_used" \in DOMAIN f.result

EndedInQuotaStop(f) ==
    /\ ~EndedInSuccess(f)
    /\ f.result.quota_exceeded
    /\ IsQuotaAnswer(f.calls[Len(f.calls)].response)

EndedInExhaustion(f) ==
    /\ ~EndedInSuccess(f)
    /\ ~f.result.quota_exceeded
    /\ Len(f.calls) = Len(models_to_try)

\* C26: an admitted request calls the provider at most once for each
\* candidate, in list order; when it has ended it holds an outcome for the
\* caller, reached by a success, a quota stop or the end of the candidate
\* list; and every request that has arrived ends.
C26_RequestTerminates ==
    /\ [](\A t \in Threads :
            /\ CallsInListOrder(th[t])
            /\ th[t].pc = "done" =>
                  /\ th[t].result # NoResult
                  /\ th[t].calls # << >> =>
                        \/ EndedInSuccess(th[t])
                        \/ EndedInQuotaStop(th[t])
                        \/ EndedInExhaustion(th[t]))
    /\ \A t \in FallbackThreads :
          (th[t].pc \notin {"idle", "done"}) ~> (th[t].pc = "done")

\* a request has ended after the last candidate failed
C26_Witness ==
    \E t \in Threads :
        /\ th[t].pc = "done"
        /\ EndedInExhaustion(th[t])
        /\ th[t].calls # << >>

\* the answer of the provider call thread t has just made
LastAnswer(f) == f.calls[Len(f.calls)].response

\* C27: when a candidate's call returns without error but with empty or
\* blank text, the candidate counts as failed: the request goes on to the
\* next candidate (or ends in a failure after the last one), nothing is
\* stored or recorded for the answer, and quota, cooldown and cache state
\* stay as they are.
C27_EmptyTextFailsCandidate ==
    [][\A t \in Threads :
          StepFrom(t, "call")
             /\ ~LastAnswer(th'[t]).raised
             /\ LastAnswer(th'[t]).text \in {EmptyText, BlankText}
          => /\ th'[t].succeeded_at = 0
             /\ \/ th'[t].pc = "call" /\ th'[t].idx = th[t].idx + 1
                \/ LoopFailed(th'[t]) /\ th[t].idx = Len(models_to_try)
             /\ UNCHANGED <<cooldownVars, quotaVars,
                            gemini_request_cache>>]_vars

\* C28: no execution deadlocks on the two locks.  A lock has one holder at
\* most; a thread that holds both holds the cooldown lock first and is
\* running get_gemini_status; no thread waits for the cooldown lock while
\* it holds the quota lock; and every thread that has called an operation
\* completes it with its locks released.
C28_NoDeadlockOnLocks ==
    /\ [](/\ \A lock \in {"cooldown", "daily"} :
               Cardinality(Holders(lock)) <= 1
          /\ \A t \in Threads :
               /\ Len(th[t].held) = 2 =>
                     /\ th[t].held = <<"cooldown", "daily">>
                     /\ th[t].op = "get_gemini_status"
               /\ t \in Holders("daily") =>
                     \A i \in 1..Len(th[t].todo) : th[t].todo[i] # "cooldown"
               /\ th[t].pc = "idle" => th[t].held = << >>)
    /\ \A t \in Threads : (th[t].pc # "idle") ~> (th[t].pc = "idle")

\* get_gemini_status holds both locks while another thread waits for the
\* quota lock
C28_Witness ==
    \E t1, t2 \in Threads :
        /\ th[t1].held = <<"cooldown", "daily">>
        /\ th[t2].pc = "lock"
        /\ th[t2].todo = <<"daily">>

\* what check_gemini_cooldown answers to user u now
Gate(u) ==
    check_gemini_cooldown(u, now, gemini_last_call_time,
                          gemini_user_cooldowns)

\* C29: for every user other than the one whose call was recorded most
\* recently, the stored per-user timestamp is not later than the global
\* last-call timestamp; so whenever that user's cooldown is active the
\* global cooldown is active too, and the user is never rejected with the
\* per-user message.
C29_OlderUserStampNotAfterGlobal ==
    \A u \in Users :
        u # last_recorded /\ u \in DOMAIN gemini_user_cooldowns
        => /\ gemini_user_cooldowns[u] <= gemini_last_call_time
           /\ UserActive(u) => GlobalActive
           /\ Gate(u).message # UserMessage

\* a user's cooldown is active after a later call of another user was
\* recorded
C29_Witness ==
    \E u \in Users :
        /\ last_recorded \in Users \ {u}
        /\ UserActive(u)
        /\ gemini_user_cooldowns[u] < gemini_last_call_time

\* the clock readings at which a next check can be made
LaterTimes == {now + d : d \in {0} \cup TickSteps \cup {CLEANUP_MAX_AGE}}

\* C30: removing stale per-user cooldown entries never changes an admission
\* decision: for every user and every later time check_gemini_cooldown
\* answers the same before and after cleanup_gemini_cache, and the cleanup
\* leaves the global last-call timestamp and the quota state unchanged.
C30_CleanupKeepsDecisions ==
    [][clean_old_files
       => /\ \A u \in Users \cup {NoUser}, t \in LaterTimes :
                check_gemini_cooldown(u, t, gemini_last_call_time,
                                      gemini_user_cooldowns)
                = check_gemini_cooldown(u, t, gemini_last_call_time',
                                        gemini_user_cooldowns')
          /\ UNCHANGED <<gemini_last_call_time, quotaVars>>]_vars

\* the cleanup has deleted the entry of a user while another user's entry,
\* one hour old at most, stays
C30_Witness ==
    /\ swept # {}
    /\ gemini_user_cooldowns # EmptyDict
    /\ \A u \in swept : u \notin DOMAIN gemini_user_cooldowns

====
